---- MODULE Spec2Model ----
(***************************************************************************)
(* The single-threaded executor of src/src/rt.rs (Executor::run_inner,     *)
(* Registry, Spawner) together with the I/O adapter of src/src/net/mod.rs  *)
(* (WithRegistry), as one state machine.                                   *)
(*                                                                         *)
(* The loop thread walks  drain -> steal -> poll -> drain ... -> check ->  *)
(* blocked -> wake -> poll -> wake ... -> drain.  While pc = "poll" the    *)
(* future of task `cur` is running: it may call the Registry, spawn tasks, *)
(* poll or deregister an adapter, clone the waker, and finally return      *)
(* Ready or Pending.  Other threads push tasks into the injector, use      *)
(* waker clones, and peers make descriptors readable.                      *)
(***************************************************************************)
EXTENDS Integers, Sequences, FiniteSets, TLC

\* ---------------------------------------------------------------- bounds
MaxTasks == 2      \* tasks ever spawned (the root included)

\* ------------------------------------------------------------- constants
None == 0                    \* Option::None (no token, no task)
Root == 1                    \* the task Executor::run spawns first
EventsCapacity == 128        \* Events::with_capacity(128)

Tasks == 1..MaxTasks
ListenerFds == {1}           \* descriptors wrapped as WithRegistry<TcpListener>
StreamFds == {2}             \* descriptors wrapped as WithRegistry<TcpStream>
Fds == ListenerFds \cup StreamFds
Tokens == Fds                \* tokens callers pass (the adapter passes its fd)
Readable == "READABLE"       \* Interest::READABLE
Unregistered == [token |-> None, interests |-> "none"]
NoOp == [res |-> "none", on |-> None, reg |-> FALSE]

VARIABLES
    pc,          \* position of the loop thread in run / run_inner
    cur,         \* the task being polled, or None
    wokenTok,    \* the key the running task was removed from `waiting` under
                 \* (None while a task stolen from the injector runs)
    lastOp,      \* the running poll's last Registry / adapter call, and
                 \* whether the poll has called the Registry at all
    injector,    \* SpawnerInner.injector, a FIFO of tasks
    waiting,     \* run_inner's HashMap<Token, Task>
    events,      \* the rest of the readiness batch being iterated
    last_token,  \* RegistryInner.last_token
    mioReg,      \* what mio's Poll has registered, per descriptor
    evq,         \* descriptors with an undelivered readiness event
    readable,    \* descriptors with a connection / bytes pending
    registered,  \* WithRegistry.registered, per adapter (one per descriptor)
    nSpawned,    \* tasks spawned so far (ids 1..nSpawned)
    ext,         \* history: tasks pushed from another thread
    lost,        \* history: a task was dropped without having completed
    pendHist,    \* history: "none" | "registered" | "unregistered"
    batch,       \* history: the readiness batch of the wake phase under way
    woken        \* history: the tasks polled so far in that wake phase

vars == <<pc, cur, wokenTok, lastOp, injector, waiting, events, last_token,
          mioReg, evq, readable, registered, nSpawned, ext, lost, pendHist,
          batch, woken>>

loopVars == <<pc, cur, wokenTok, lastOp, injector, waiting, events>>
regVars == <<last_token, mioReg, evq>>
histVars == <<ext, lost, pendHist, batch, woken>>

\* ------------------------------------------------------------------ Init
\* Executor::run: new()? then spawn(root) then run_inner.  Poll::new() may
\* fail, and then run returns the error before anything is spawned.
InitOk ==
    /\ pc = "drain"
    /\ injector = <<Root>>
    /\ nSpawned = 1

InitFailed ==
    /\ pc = "err"
    /\ injector = <<>>
    /\ nSpawned = 0

Init ==
    /\ InitOk \/ InitFailed
    /\ cur = None
    /\ wokenTok = None
    /\ lastOp = NoOp
    /\ waiting = [k \in Tokens |-> None]
    /\ events = <<>>
    /\ last_token = None
    /\ mioReg = [f \in Fds |-> Unregistered]
    /\ evq = {}
    /\ readable = {}
    /\ registered = [f \in Fds |-> FALSE]
    /\ ext = {}
    /\ lost = FALSE
    /\ pendHist = "none"
    /\ batch = <<>>
    /\ woken = {}

\* ------------------------------------------------- the readiness primitive
\* mio's Registry over epoll: a descriptor holds at most one registration;
\* adding a registered descriptor, or changing / removing an unregistered
\* one, is an I/O error that leaves the registrations as they were.  A
\* descriptor that is readable when it is added or changed has an event
\* queued at once; removing a descriptor removes its queued event.
\* Faulty variant of MioRegisterOk: adding a registered descriptor replaces
\* its registration.
MioRegisterOkAlways(fd) == TRUE

MioRegisterOk(fd) == mioReg[fd] = Unregistered

MioReregisterOk(fd) == mioReg[fd] # Unregistered

MioDeregisterOk(fd) == mioReg[fd] # Unregistered

Arm(fd) == IF fd \in readable THEN evq \cup {fd} ELSE evq

\* Registry::register: the closure stores last_token, then calls mio.
Registry_register(fd, tok, int) ==
    /\ last_token' = tok
    /\ IF MioRegisterOk(fd)
       THEN /\ mioReg' = [mioReg EXCEPT ![fd] = [token |-> tok, interests |-> int]]
            /\ evq' = Arm(fd)
       ELSE UNCHANGED <<mioReg, evq>>

\* Registry::reregister
Registry_reregister(fd, tok, int) ==
    /\ last_token' = tok
    /\ IF MioReregisterOk(fd)
       THEN /\ mioReg' = [mioReg EXCEPT ![fd] = [token |-> tok, interests |-> int]]
            /\ evq' = Arm(fd)
       ELSE UNCHANGED <<mioReg, evq>>

\* Registry::deregister
Registry_deregister(fd) ==
    /\ last_token' = None
    /\ IF MioDeregisterOk(fd)
       THEN /\ mioReg' = [mioReg EXCEPT ![fd] = Unregistered]
            /\ evq' = evq \ {fd}
       ELSE UNCHANGED <<mioReg, evq>>

\* RegistryInner::last
Last == last_token

Res(ok) == IF ok THEN "Ok" ELSE "Err"

\* --------------------------------------------------------- the run loop
WaitingIsEmpty == \A k \in Tokens : waiting[k] = None

Parked == {waiting[k] : k \in {j \in Tokens : waiting[j] # None}}

InQueue == {injector[i] : i \in DOMAIN injector}

\* The poll call of run_inner: the future of t runs until it returns.
BeginPoll(t, key) ==
    /\ pc' = "poll"
    /\ cur' = t
    /\ wokenTok' = key
    /\ lastOp' = NoOp

\* Faulty variant of AfterPoll: the drain phase takes one task and goes on
\* to the wait phase (an `if` where the code has `while`).
AfterPollOnce(key) == IF key = None THEN "check" ELSE "wake"

\* Where the loop thread continues when a poll returns: the `while` of the
\* drain phase tests the injector again, the `for` of the wake phase takes
\* the next event.
AfterPoll(key) == IF key = None THEN "drain" ELSE "wake"

\* Faulty variant of AfterWake: the wake phase is followed by the wait phase
\* without draining the injector first.
AfterWakeNoDrain == "check"

\* After the last event the outer `loop` starts over with the drain phase.
AfterWake == "drain"

\* Faulty variant of WaitDecision: the loop ends when nothing is queued,
\* whatever is parked.
WaitDecisionOnQueue == IF injector = <<>> THEN "done" ELSE "blocked"

\* `if !waiting.is_empty() { poll } else { break Ok(()) }`
WaitDecision == IF WaitingIsEmpty THEN "done" ELSE "blocked"

\* `if let Some(token) = reg.lock().unwrap().last() { waiting.insert(token, task) }`
Park(t) == IF Last # None THEN [waiting EXCEPT ![Last] = t] ELSE waiting

\* `while !self.spawner.injector.is_empty()`
DrainCheck ==
    /\ pc = "drain"
    /\ pc' = IF injector = <<>> THEN "check" ELSE "steal"
    /\ UNCHANGED <<cur, wokenTok, lastOp, injector, waiting, events>>
    /\ UNCHANGED <<regVars, readable, registered, nSpawned, histVars>>

\* `if let Steal::Success(mut task) = injector.steal()` and the poll call
StealSuccess ==
    /\ pc = "steal"
    /\ injector # <<>>
    /\ injector' = Tail(injector)
    /\ BeginPoll(Head(injector), None)
    /\ UNCHANGED <<waiting, events>>
    /\ UNCHANGED <<regVars, readable, registered, nSpawned>>
    /\ UNCHANGED histVars

\* Any other outcome of steal() (Steal::Retry): nothing is taken and the
\* `while` tests the injector again.
StealRetry ==
    /\ pc = "steal"
    /\ pc' = "drain"
    /\ UNCHANGED <<cur, wokenTok, lastOp, injector, waiting, events>>
    /\ UNCHANGED <<regVars, readable, registered, nSpawned, histVars>>

\* The wait phase: break Ok(()) or enter poll.poll(&mut events, None).
WaitCheck ==
    /\ pc = "check"
    /\ pc' = WaitDecision
    /\ UNCHANGED <<cur, wokenTok, lastOp, injector, waiting, events>>
    /\ UNCHANGED <<regVars, readable, registered, nSpawned, histVars>>

RECURSIVE Perms(_)
Perms(S) ==
    IF S = {} THEN {<<>>}
    ELSE UNION {{<<x>> \o p : p \in Perms(S \ {x})} : x \in S}

RECURSIVE TokensOf(_)
TokensOf(fs) ==
    IF fs = <<>> THEN <<>>
    ELSE <<mioReg[Head(fs)].token>> \o TokensOf(Tail(fs))

Truncate(s) == IF Len(s) > EventsCapacity THEN SubSeq(s, 1, EventsCapacity) ELSE s

\* The batches poll.poll can deliver now: the queued events, in any order.
Batches == {Truncate(TokensOf(p)) : p \in Perms(evq)}

\* poll.poll(&mut events, None) returns with a batch.
PollWait ==
    /\ pc = "blocked"
    /\ evq # {}
    /\ \E b \in Batches : events' = b
    /\ batch' = events'
    /\ evq' = {}
    /\ pc' = "wake"
    /\ UNCHANGED <<cur, wokenTok, lastOp, injector, waiting>>
    /\ UNCHANGED <<last_token, mioReg, readable, registered, nSpawned>>
    /\ UNCHANGED <<ext, lost, pendHist, woken>>

\* Faulty variant of PollWaitErr: the error of the wait is swallowed and
\* the loop goes on with an empty batch.
PollWaitErrSwallowed ==
    /\ pc = "blocked"
    /\ pc' = "wake"
    /\ UNCHANGED <<cur, wokenTok, lastOp, injector, waiting, events>>
    /\ UNCHANGED <<regVars, readable, registered, nSpawned, histVars>>

\* poll.poll(..)? fails: run returns the error.
PollWaitErr ==
    /\ pc = "blocked"
    /\ pc' = "err"
    /\ UNCHANGED <<cur, wokenTok, lastOp, injector, waiting, events>>
    /\ UNCHANGED <<regVars, readable, registered, nSpawned, histVars>>

\* `for event in events`: `if let Some(mut task) = waiting.remove(&event.token())`
WakeEvent ==
    /\ pc = "wake"
    /\ events # <<>>
    /\ events' = Tail(events)
    /\ LET tok == Head(events) IN
       IF waiting[tok] # None
       THEN /\ waiting' = [waiting EXCEPT ![tok] = None]
            /\ BeginPoll(waiting[tok], tok)
            /\ woken' = woken \cup {waiting[tok]}
       ELSE UNCHANGED <<pc, cur, wokenTok, lastOp, waiting, woken>>
    /\ UNCHANGED <<injector>>
    /\ UNCHANGED <<regVars, readable, registered, nSpawned>>
    /\ UNCHANGED <<ext, lost, pendHist, batch>>

\* The batch is exhausted: back to the top of `loop`.
WakeEnd ==
    /\ pc = "wake"
    /\ events = <<>>
    /\ pc' = AfterWake
    /\ batch' = <<>>
    /\ woken' = {}
    /\ UNCHANGED <<cur, wokenTok, lastOp, injector, waiting, events>>
    /\ UNCHANGED <<regVars, readable, registered, nSpawned, ext, lost, pendHist>>

\* ------------------------------------------------ what a running future does
Running == pc = "poll"

\* The record of a call: its result, the descriptor a Pending result waits
\* on, and whether the poll has called the Registry so far.
Call(op, fd, res, reg) ==
    lastOp' = [res |-> res, on |-> IF res = "Pending" THEN fd ELSE None,
               reg |-> lastOp.reg \/ reg]

\* The future calls Registry::register itself.
TaskRegister(fd, tok) ==
    /\ Running
    /\ Registry_register(fd, tok, Readable)
    /\ Call("register", fd, Res(MioRegisterOk(fd)), TRUE)
    /\ UNCHANGED <<pc, cur, wokenTok, injector, waiting, events>>
    /\ UNCHANGED <<readable, registered, nSpawned, histVars>>

\* The future calls Registry::reregister itself.
TaskReregister(fd, tok) ==
    /\ Running
    /\ Registry_reregister(fd, tok, Readable)
    /\ Call("reregister", fd, Res(MioReregisterOk(fd)), TRUE)
    /\ UNCHANGED <<pc, cur, wokenTok, injector, waiting, events>>
    /\ UNCHANGED <<readable, registered, nSpawned, histVars>>

\* The future calls Registry::deregister itself.
TaskDeregister(fd) ==
    /\ Running
    /\ Registry_deregister(fd)
    /\ Call("deregister", fd, Res(MioDeregisterOk(fd)), TRUE)
    /\ UNCHANGED <<pc, cur, wokenTok, injector, waiting, events>>
    /\ UNCHANGED <<readable, registered, nSpawned, histVars>>

\* Spawner::spawn: the new task is pushed to the injector.
Push(q, t) == Append(q, t)

\* Spawner::spawn called by the running future, on the loop thread.
TaskSpawn ==
    /\ Running
    /\ nSpawned < MaxTasks
    /\ nSpawned' = nSpawned + 1
    /\ injector' = Push(injector, nSpawned + 1)
    /\ UNCHANGED <<pc, cur, wokenTok, lastOp, waiting, events>>
    /\ UNCHANGED <<regVars, readable, registered, histVars>>

\* Spawner::spawn called on another thread.  Once run has returned the
\* executor is dropped and upgrade().unwrap() panics: nothing is pushed.
ExtSpawn ==
    /\ pc \notin {"done", "err"}
    /\ nSpawned < MaxTasks
    /\ nSpawned' = nSpawned + 1
    /\ injector' = Push(injector, nSpawned + 1)
    /\ ext' = ext \cup {nSpawned + 1}
    /\ UNCHANGED <<pc, cur, wokenTok, lastOp, waiting, events>>
    /\ UNCHANGED <<regVars, readable, registered, lost, pendHist, batch, woken>>

\* The poll call returns to run_inner.
EndPoll ==
    /\ pc' = AfterPoll(wokenTok)
    /\ cur' = None
    /\ wokenTok' = None
    /\ lastOp' = NoOp

\* The poll returns Ready: the task is dropped, completed.
PollReady ==
    /\ pc = "poll"
    /\ EndPoll
    /\ UNCHANGED <<injector, waiting, events>>
    /\ UNCHANGED <<regVars, readable, registered, nSpawned, histVars>>

\* The token the running task itself registered last: in this poll if it
\* called the Registry, else the one it was parked under.
OwnToken == IF lastOp.reg THEN Last ELSE wokenTok

IsRegistered(tok) == tok # None /\ \E f \in Fds : mioReg[f].token = tok

\* The poll returns Pending: the task is parked under last() or dropped;
\* HashMap::insert drops the task the key held before.
PollPending ==
    /\ pc = "poll"
    /\ EndPoll
    /\ waiting' = Park(cur)
    /\ lost' = (lost \/ Last = None \/ waiting[Last] # None)
    /\ pendHist' = IF pendHist = "unregistered" \/ ~IsRegistered(OwnToken)
                   THEN "unregistered" ELSE "registered"
    /\ UNCHANGED <<injector, events>>
    /\ UNCHANGED <<regVars, readable, registered, nSpawned, ext, batch, woken>>

\* ------------------------------------------------------- the I/O adapter
\* The argument of ExecutorRef::register: Reg::Reg(token, interest) or
\* Reg::DeReg.
RegReg(tok, int) == [kind |-> "Reg", token |-> tok, interests |-> int]

RegDeReg == [kind |-> "DeReg", token |-> None, interests |-> "none"]

\* ExecutorRef::register(source, reg) hands the request to the Registry.
ExecutorRef_register(fd, reg) ==
    IF reg.kind = "Reg"
    THEN Registry_register(fd, reg.token, reg.interests)
    ELSE Registry_deregister(fd)

ExecutorRef_registerOk(fd, reg) ==
    IF reg.kind = "Reg" THEN MioRegisterOk(fd) ELSE MioDeregisterOk(fd)

\* Faulty variant of AdapterToken: every adapter registers under one token.
AdapterTokenFixed(fd) == 1

\* Token(fd as _)
AdapterToken(fd) == fd

\* What the non-blocking accept / read can return now.
IoResults(fd) ==
    (IF fd \in readable THEN {"Ok"} ELSE {"WouldBlock"}) \cup {"UnexpectedEof", "Other"}

\* Faulty variant of PollNextResult: end-of-stream during accept is
\* surfaced as an error item instead of ending the stream.
PollNextResultEofErr(r) ==
    CASE r = "Ok" -> "Ready(Some(Ok))"
      [] r = "WouldBlock" -> "Pending"
      [] OTHER -> "Ready(Some(Err))"

\* The `match self.inner.accept()` of poll_next.
PollNextResult(r) ==
    CASE r = "Ok" -> "Ready(Some(Ok))"
      [] r = "WouldBlock" -> "Pending"
      [] r = "UnexpectedEof" -> "Ready(None)"
      [] OTHER -> "Ready(Some(Err))"

\* The `match this.inner.read(buf)` of poll_read.
PollReadResult(r) ==
    CASE r = "Ok" -> "Ready(Ok)"
      [] r = "WouldBlock" -> "Pending"
      [] OTHER -> "Ready(Err)"

\* `if !self.registered { self.executor.register(..)?; self.registered = true; }`
\* followed by the non-blocking call, which returns r; `failed` is what the
\* `?` returns.
AdapterPollIo(op, fd, failed, r) ==
    /\ Running
    /\ r \in IoResults(fd)
    /\ IF ~registered[fd] /\ ~ExecutorRef_registerOk(fd, RegReg(AdapterToken(fd), Readable))
       THEN /\ ExecutorRef_register(fd, RegReg(AdapterToken(fd), Readable))
            /\ Call(op, fd, failed, TRUE)
            /\ UNCHANGED <<registered, readable>>
       ELSE /\ IF ~registered[fd]
               THEN /\ ExecutorRef_register(fd, RegReg(AdapterToken(fd), Readable))
                    /\ registered' = [registered EXCEPT ![fd] = TRUE]
               ELSE UNCHANGED <<regVars, registered>>
            /\ IF r = "Ok"
               THEN readable' \in {readable, readable \ {fd}}
               ELSE readable' = readable
            /\ Call(op, fd,
                    IF op = "poll_next" THEN PollNextResult(r) ELSE PollReadResult(r),
                    ~registered[fd])
    /\ UNCHANGED <<pc, cur, wokenTok, injector, waiting, events>>
    /\ UNCHANGED <<nSpawned, histVars>>

AdapterPoll(op, fd, failed) == \E r \in IoResults(fd) : AdapterPollIo(op, fd, failed, r)

\* <WithRegistry<TcpListener> as Stream>::poll_next
PollNext(fd) ==
    /\ fd \in ListenerFds
    /\ AdapterPoll("poll_next", fd, "Ready(Some(Err))")

\* <WithRegistry<T> as AsyncRead>::poll_read
PollRead(fd) ==
    /\ fd \in StreamFds
    /\ AdapterPoll("poll_read", fd, "Ready(Err)")

\* WithRegistry::deregister
AdapterDeregister(fd) ==
    /\ Running
    /\ IF registered[fd]
       THEN /\ ExecutorRef_register(fd, RegDeReg)
            /\ Call("adapter_deregister", fd, Res(ExecutorRef_registerOk(fd, RegDeReg)), TRUE)
       ELSE /\ Call("adapter_deregister", fd, Res(TRUE), FALSE)
            /\ UNCHANGED regVars
    /\ UNCHANGED registered
    /\ UNCHANGED <<pc, cur, wokenTok, injector, waiting, events>>
    /\ UNCHANGED <<readable, nSpawned, histVars>>

\* ------------------------------------------------------------- the waker
\* V_TABLE: clone makes another RawWaker over the same table; wake,
\* wake_by_ref and drop are `|_| ()`.  The waker owns nothing (a null data
\* pointer and a static table), so a clone can be used from any thread once
\* the first poll has handed it out.
WakerHandedOut == nSpawned > 0 /\ Root \notin InQueue

\* Faulty variant of WakerWake: a waker that does notify, moving a parked
\* task back to the injector.
WakerWakeRequeue ==
    /\ WakerHandedOut
    /\ \E k \in Tokens :
         /\ waiting[k] # None
         /\ injector' = Push(injector, waiting[k])
         /\ waiting' = [waiting EXCEPT ![k] = None]
    /\ UNCHANGED <<pc, cur, wokenTok, lastOp, events>>
    /\ UNCHANGED <<regVars, readable, registered, nSpawned, histVars>>

WakerClone ==
    /\ WakerHandedOut
    /\ UNCHANGED vars

WakerWake ==
    /\ WakerHandedOut
    /\ UNCHANGED vars

WakerWakeByRef ==
    /\ WakerHandedOut
    /\ UNCHANGED vars

WakerDrop ==
    /\ WakerHandedOut
    /\ UNCHANGED vars

\* ------------------------------------------------------------- the peers
\* A peer connects to a listener or sends to a stream: the descriptor is
\* readable until what is pending has been taken, and a registered
\* descriptor gets an event queued.
PeerSend(fd) ==
    /\ pc \notin {"done", "err"}
    /\ readable' = readable \cup {fd}
    /\ evq' = IF mioReg[fd] # Unregistered THEN evq \cup {fd} ELSE evq
    /\ UNCHANGED <<loopVars, last_token, mioReg, registered, nSpawned, histVars>>

\* ------------------------------------------------------------------ Next
\* The loop thread's own steps.
Loop ==
    \/ DrainCheck
    \/ StealSuccess
    \/ StealRetry
    \/ WaitCheck
    \/ PollWait
    \/ PollWaitErr
    \/ WakeEvent
    \/ WakeEnd

\* What is common to every future: spawning, returning, using the waker.
Future ==
    \/ TaskSpawn
    \/ PollReady
    \/ PollPending
    \/ WakerClone
    \/ WakerWake
    \/ WakerWakeByRef
    \/ WakerDrop

\* The executor with futures that call the Registry themselves.
Next ==
    \/ Loop
    \/ Future
    \/ ExtSpawn
    \/ \E fd \in Fds, tok \in Tokens : TaskRegister(fd, tok)
    \/ \E fd \in Fds, tok \in Tokens : TaskReregister(fd, tok)
    \/ \E fd \in Fds : TaskDeregister(fd)
    \/ \E fd \in Fds : PeerSend(fd)

Spec == Init /\ [][Next]_vars

\* The executor with futures that do their I/O through WithRegistry.
AdapterNext ==
    \/ Loop
    \/ Future
    \/ ExtSpawn
    \/ \E fd \in Fds : PollNext(fd)
    \/ \E fd \in Fds : PollRead(fd)
    \/ \E fd \in Fds : AdapterDeregister(fd)
    \/ \E fd \in Fds : PeerSend(fd)

AdapterSpec == Init /\ [][AdapterNext]_vars

\* ================================================================ claims
\* Tasks that are queued or parked.
Live == InQueue \cup Parked

\* No poll has returned Pending and every task was spawned on the loop
\* thread: the spawn tree of C2.
SyncTree == nSpawned >= 1 /\ pendHist = "none" /\ ext = {}

\* ---------------------------------------------------------------------
\* C1: whenever run has returned Ok no task is parked, and the loop thread
\* is inside the blocking wait only while some task is parked.
C1_ReturnOnlyWhenNothingParked ==
    /\ pc = "done" => WaitingIsEmpty
    /\ pc = "blocked" => ~WaitingIsEmpty

\* run has returned Ok after tasks were parked and woken.
C1_Witness == pc = "done" /\ pendHist = "registered" /\ ~lost

\* ---------------------------------------------------------------------
\* C2: in a spawn tree where no poll returns Pending the loop thread never
\* enters the blocking wait nor the wake phase, it can always take its next
\* step until run returns, and when run returns Ok every spawned task has
\* left the injector and returned Ready.  A task enters the injector once
\* and is polled again only in a wake phase, so each task was polled
\* exactly once.
C2_DrainBeforeWait ==
    SyncTree =>
        /\ pc \notin {"blocked", "wake", "err"}
        /\ pc # "done" => ENABLED (Loop \/ PollReady)
        /\ pc = "done" => /\ injector = <<>>
                          /\ WaitingIsEmpty
                          /\ ~lost

\* run has returned Ok for a tree of MaxTasks synchronous tasks.
C2_Witness == pc = "done" /\ SyncTree /\ nSpawned = MaxTasks

\* ---------------------------------------------------------------------
\* C3: when the loop thread is inside the blocking wait or has returned,
\* every task still in the injector was pushed from another thread: the
\* tasks spawned by polls on the loop thread have all been stolen and
\* polled.
C3_SiblingsPolledBeforeWait ==
    pc \in {"blocked", "done"} => InQueue \subseteq ext

\* The loop thread blocks after it has polled every task of a tree spawned
\* on the loop thread.
C3_Witness ==
    /\ pc = "blocked"
    /\ nSpawned = MaxTasks
    /\ ext = {}
    /\ injector = <<>>

\* ---------------------------------------------------------------------
\* C4: a task that returns Pending from its first poll without having
\* called the Registry is not inserted in the parked-task map.
C4_AbandonedWithoutRegistration ==
    [][(PollPending /\ wokenTok = None /\ ~lastOp.reg)
          => \A k \in Tokens : waiting'[k] # cur]_vars

\* ---------------------------------------------------------------------
\* C5: a waker operation leaves the injector, the parked-task map and the
\* registry state as they are, and a parked task begins a poll only when
\* the wake phase takes an event carrying the key it is parked under.
C5_NoOpWaker ==
    /\ [][(WakerClone \/ WakerWake \/ WakerWakeByRef \/ WakerDrop)
             => UNCHANGED <<injector, waiting, last_token, mioReg, evq>>]_vars
    /\ [][\A t \in Parked :
             (pc' = "poll" /\ cur' = t /\ cur # t)
                => /\ pc = "wake"
                   /\ events # <<>>
                   /\ waiting[Head(events)] = t
                   /\ wokenTok' = Head(events)]_vars

\* The waker has been handed out and the loop thread is blocked with a task
\* parked: the moment another thread would call wake.
C5_Witness == WakerHandedOut /\ pc = "blocked" /\ Parked # {}

\* ---------------------------------------------------------------------
\* C6: a task that was woken under a key, calls the Registry not at all
\* during the poll and returns Pending is parked, if it is parked, under
\* that same key: never under a token another task has registered since.
C6_ParkedUnderOwnToken ==
    [][(PollPending /\ wokenTok # None /\ ~lastOp.reg)
          => \A k \in Tokens : waiting'[k] = cur => k = wokenTok]_vars

\* ---------------------------------------------------------------------
\* C7: a register, reregister or deregister call of the running task leaves
\* the wait reason the run loop reads for every other live task unchanged.
WaitReasonFor(u) == Last

RegistryCall ==
    \/ \E fd \in Fds, tok \in Tokens : TaskRegister(fd, tok)
    \/ \E fd \in Fds, tok \in Tokens : TaskReregister(fd, tok)
    \/ \E fd \in Fds : TaskDeregister(fd)

C7_RegistrationIsolation ==
    [][RegistryCall
          => \A u \in Live \ {cur} : WaitReasonFor(u)' = WaitReasonFor(u)]_vars

\* ---------------------------------------------------------------------
\* C8: a task woken under the token of a registered adapter that polls the
\* adapter again, finds nothing pending and returns Pending, without a new
\* registration, is parked under that token again, ready for the next
\* connection.
C8_ReadinessRoundTrip ==
    [][(/\ PollPending
        /\ wokenTok # None
        /\ ~lastOp.reg
        /\ lastOp.res = "Pending"
        /\ lastOp.on # None
        /\ AdapterToken(lastOp.on) = wokenTok
        /\ registered[lastOp.on])
          => waiting'[wokenTok] = cur]_vars

\* ---------------------------------------------------------------------
\* C9: when run returns Ok in a run where every task was spawned on the
\* loop thread and every Pending was returned with a registered token of
\* the task's own, the injector and the parked-task map are empty and no
\* task was dropped before it completed.
C9_AllCompletedAtReturn ==
    (pc = "done" /\ ext = {} /\ pendHist # "unregistered")
        => /\ injector = <<>>
           /\ WaitingIsEmpty
           /\ ~lost

\* ---------------------------------------------------------------------
\* C10: deregister on a registered adapter unregisters the descriptor and
\* clears the registered flag; on an adapter that is not registered it
\* calls nothing and returns Ok.
C10_AdapterDeregistration ==
    [][\A fd \in Fds :
          AdapterDeregister(fd)
             => IF registered[fd]
                THEN mioReg'[fd] = Unregistered /\ ~registered'[fd]
                ELSE UNCHANGED regVars /\ lastOp'.res = "Ok"]_vars

\* ---------------------------------------------------------------------
\* C11: a poll of a registered (or successfully registering) adapter whose
\* non-blocking call returns r returns Ready with the value when r is a
\* success, Pending exactly when r is would-block, Ready(None) when accept
\* reports end-of-stream, and Ready with the error for every other error.
IoOutcomes == {"Ok", "WouldBlock", "UnexpectedEof", "Other"}

ReachesIo(fd) ==
    registered[fd] \/ ExecutorRef_registerOk(fd, RegReg(AdapterToken(fd), Readable))

C11_AdapterOutcomeMapping ==
    [][\A fd \in Fds, r \in IoOutcomes :
          /\ (ReachesIo(fd) /\ fd \in ListenerFds
                 /\ AdapterPollIo("poll_next", fd, "Ready(Some(Err))", r))
               => /\ (r = "Ok") <=> (lastOp'.res = "Ready(Some(Ok))")
                  /\ (r = "WouldBlock") <=> (lastOp'.res = "Pending")
                  /\ (r = "UnexpectedEof") <=> (lastOp'.res = "Ready(None)")
                  /\ (r = "Other") <=> (lastOp'.res = "Ready(Some(Err))")
          /\ (ReachesIo(fd) /\ fd \in StreamFds
                 /\ AdapterPollIo("poll_read", fd, "Ready(Err)", r))
               => /\ (r = "Ok") <=> (lastOp'.res = "Ready(Ok)")
                  /\ (r = "WouldBlock") <=> (lastOp'.res = "Pending")
                  /\ (r \in {"UnexpectedEof", "Other"}) <=> (lastOp'.res = "Ready(Err)")]_vars

\* A registered listener adapter has just reported end-of-stream.
C11_Witness ==
    /\ pc = "poll"
    /\ lastOp.res = "Ready(None)"
    /\ \E fd \in ListenerFds : registered[fd]

\* The executor running one root future that calls the Registry itself and
\* also does I/O through adapters over the same descriptors, and spawns
\* nothing.
SoloNext ==
    \/ Loop
    \/ PollReady
    \/ PollPending
    \/ RegistryCall
    \/ \E fd \in Fds : PollNext(fd)
    \/ \E fd \in Fds : PollRead(fd)
    \/ \E fd \in Fds : AdapterDeregister(fd)
    \/ \E fd \in Fds : PeerSend(fd)

SoloSpec == Init /\ [][SoloNext]_vars

\* ---------------------------------------------------------------------
\* C12: when Poll::new fails run has returned the error and nothing was
\* spawned; once run has returned an error it never returns Ok; the loop
\* thread leaves the blocking wait without a batch only by returning the
\* error; a register / reregister / deregister call that mio rejects
\* returns Err to the calling future; an adapter poll whose registration is
\* rejected returns Ready with the error and leaves the flag false, and an
\* adapter deregister that is rejected returns Err.
AdapterPollFails(fd) ==
    /\ ~registered[fd]
    /\ ~ExecutorRef_registerOk(fd, RegReg(AdapterToken(fd), Readable))
    /\ PollNext(fd) \/ PollRead(fd)

C12_ErrorsPropagated ==
    /\ [](nSpawned = 0 => pc = "err")
    /\ [][pc = "err" => pc' = "err"]_vars
    /\ [][(pc = "blocked" /\ pc' # "blocked" /\ events' = <<>>) => pc' = "err"]_vars
    /\ [][\A fd \in Fds, tok \in Tokens :
            /\ (TaskRegister(fd, tok) /\ ~MioRegisterOk(fd)) => lastOp'.res = "Err"
            /\ (TaskReregister(fd, tok) /\ ~MioReregisterOk(fd)) => lastOp'.res = "Err"
            /\ (TaskDeregister(fd) /\ ~MioDeregisterOk(fd)) => lastOp'.res = "Err"]_vars
    /\ [][\A fd \in Fds :
            /\ AdapterPollFails(fd)
                 => /\ lastOp'.res \in {"Ready(Some(Err))", "Ready(Err)"}
                    /\ ~registered'[fd]
            /\ (AdapterDeregister(fd) /\ registered[fd] /\ ~MioDeregisterOk(fd))
                 => lastOp'.res = "Err"]_vars

\* An adapter poll has just failed to register a descriptor that the future
\* had registered itself, and returned the error.
C12_Witness ==
    /\ pc = "poll"
    /\ lastOp.res = "Ready(Some(Err))"
    /\ lastOp.reg
    /\ \E fd \in ListenerFds : ~registered[fd] /\ mioReg[fd] # Unregistered

\* ---------------------------------------------------------------------
\* C13: every descriptor is either unregistered or holds one registration,
\* a token with the read interest, and a register call on a descriptor that
\* holds a registration returns Err and leaves every registration as it was.
Registrations ==
    {Unregistered} \cup [token : Tokens, interests : {Readable}]

InWakePhase == pc = "wake" \/ (pc = "poll" /\ wokenTok # None)

InBatch(k) == \E i \in DOMAIN batch : batch[i] = k

C14_WakePhase ==
    /\ [][(WakeEvent /\ waiting[Head(events)] = None)
             => UNCHANGED <<pc, cur, waiting, injector>>]_vars
    /\ [][(WakeEvent /\ waiting[Head(events)] # None)
             => /\ pc' = "poll"
                /\ cur' = waiting[Head(events)]
                /\ waiting'[Head(events)] = None]_vars
    /\ [][InWakePhase
             => \A k \in Tokens :
                   (waiting[k] # None /\ ~InBatch(k))
                      => /\ waiting'[k] = waiting[k]
                         /\ cur' # waiting[k]]_vars

\* ---------------------------------------------------------------------
\* C15: a poll of an adapter whose flag is set calls the Registry not at
\* all; a poll of an adapter whose flag is clear makes one register call
\* with the descriptor number as token and the read interest, and sets the
\* flag exactly when mio accepted the call; no poll changes an existing
\* registration (no reregister); and the flag, once set, stays set over
\* every step that is not a deregister, so that at most one register call
\* of the adapter succeeds.
AdapterPollOf(fd) == PollNext(fd) \/ PollRead(fd)

C15_RegisterOnce ==
    [][\A fd \in Fds :
          /\ (AdapterPollOf(fd) /\ registered[fd])
               => UNCHANGED <<last_token, mioReg, evq, registered>>
          /\ (AdapterPollOf(fd) /\ ~registered[fd])
               => /\ last_token' = fd
                  /\ registered'[fd] <=> (mioReg[fd] = Unregistered)
                  /\ IF mioReg[fd] = Unregistered
                     THEN mioReg' = [mioReg EXCEPT ![fd] = [token |-> fd, interests |-> Readable]]
                     ELSE mioReg' = mioReg
          /\ (registered[fd] /\ ~AdapterDeregister(fd)) => registered'[fd]]_vars

\* A poll of an adapter that was registered by an earlier poll has found
\* nothing pending and has not called the Registry.
C15_Witness ==
    /\ pc = "poll"
    /\ wokenTok # None
    /\ lastOp.res = "Pending"
    /\ ~lastOp.reg
    /\ lastOp.on \in StreamFds
    /\ registered[lastOp.on]

\* ---------------------------------------------------------------------
\* C16: the task parked under a key changes only when the wake phase takes
\* an event carrying that key and removes the task; in particular the
\* insert after a Pending poll never replaces a task parked under the key.
C16_NoEviction ==
    [][\A k \in Tokens :
          (waiting[k] # None /\ waiting'[k] # waiting[k])
             => /\ pc = "wake"
                /\ events # <<>>
                /\ Head(events) = k
                /\ waiting'[k] = None
                /\ cur' = waiting[k]]_vars

\* ---------------------------------------------------------------------
\* C17: when run has returned Ok no task pushed from another thread is
\* still in the injector: each was stolen, and so polled, before the
\* return.
C17_InjectionNotLost ==
    pc = "done" => \A t \in ext : t \notin InQueue

\* ---------------------------------------------------------------------
\* C18: while the loop thread is inside the blocking wait every key of the
\* parked-task map is the token of a descriptor that mio has registered.
C18_ParkedKeysRegistered ==
    pc = "blocked" => \A k \in Tokens : waiting[k] # None => IsRegistered(k)

\* ---------------------------------------------------------------------
\* C19: a register, reregister or deregister call that mio rejects leaves
\* the token the run loop reads after the poll as it was before the call.
RegistryCallRejected ==
    \/ \E fd \in Fds, tok \in Tokens : TaskRegister(fd, tok) /\ ~MioRegisterOk(fd)
    \/ \E fd \in Fds, tok \in Tokens : TaskReregister(fd, tok) /\ ~MioReregisterOk(fd)
    \/ \E fd \in Fds : TaskDeregister(fd) /\ ~MioDeregisterOk(fd)

C19_FailedCallKeepsWaitRecord ==
    [][RegistryCallRejected => Last' = Last]_vars

\* ---------------------------------------------------------------------
\* C20: the task that the wake phase removes and polls for an event has not
\* been polled before in the same wake phase.
C20_OnePollPerBatch ==
    [][(WakeEvent /\ waiting[Head(events)] # None)
          => waiting[Head(events)] \notin woken]_vars

====
